---- MODULE Spec2Model ----
(***************************************************************************)
(* Model of gluonvision/model_zoo/ssd/ssd.py: the SSD detector class (its  *)
(* constructor, set_nms and hybrid_forward), get_ssd and the four exported *)
(* model factories.                                                        *)
(*                                                                         *)
(* Python floats are modelled as binary floating-point numbers with a      *)
(* Precision-bit significand and round-to-nearest-even, written <<m, e>>   *)
(* for m * 2^e (m = 0, or 2^(Precision-1) <= |m| < 2^Precision).           *)
(***************************************************************************)
EXTENDS Integers, Sequences, FiniteSets, TLC

\* ------------------------------------------------------------------ bounds
\* Significand width of the modelled floats (53 for a Python float).
Precision ==
    10

\* Largest number of layers (and of nested ratio lists) the inputs are drawn with.
MaxLayers ==
    4

\* ------------------------------------------------ floating-point arithmetic
RECURSIVE Pow2(_)
Pow2(k) ==
    IF k <= 0 THEN 1 ELSE 2 * Pow2(k - 1)

RECURSIVE BitLen(_)
BitLen(M) ==
    IF M = 0 THEN 0 ELSE 1 + BitLen(M \div 2)

Abs(x) ==
    IF x < 0 THEN 0 - x ELSE x

Sign(x) ==
    IF x < 0 THEN 0 - 1 ELSE 1

Min2(a, b) ==
    IF a <= b THEN a ELSE b

\* Round sign * M * 2^E (M >= 0) to Precision bits, ties to even.
RoundNE(sign, M, E) ==
    IF M = 0 THEN <<0, 0>>
    ELSE LET k == BitLen(M) - Precision IN
         IF k <= 0 THEN <<sign * M * Pow2(0 - k), E + k>>
         ELSE LET q    == M \div Pow2(k)
                  r    == M % Pow2(k)
                  half == Pow2(k - 1)
                  up   == r > half \/ (r = half /\ q % 2 = 1)
                  q2   == IF up THEN q + 1 ELSE q
              IN  IF q2 = Pow2(Precision)
                  THEN <<sign * Pow2(Precision - 1), E + k + 1>>
                  ELSE <<sign * q2, E + k>>

FromInt(i) ==
    RoundNE(Sign(i), Abs(i), 0)

\* The exact sum of two floats, as an integer multiple of 2^e.
AlignedSum(a, b, sb) ==
    LET e == Min2(a[2], b[2]) IN
    <<a[1] * Pow2(a[2] - e) + sb * b[1] * Pow2(b[2] - e), e>>

FAdd(a, b) ==
    IF a[1] = 0 THEN b
    ELSE IF b[1] = 0 THEN a
    ELSE LET s == AlignedSum(a, b, 1) IN RoundNE(Sign(s[1]), Abs(s[1]), s[2])

FSub(a, b) ==
    IF b[1] = 0 THEN a
    ELSE IF a[1] = 0 THEN <<0 - b[1], b[2]>>
    ELSE LET s == AlignedSum(a, b, 0 - 1) IN RoundNE(Sign(s[1]), Abs(s[1]), s[2])

FMul(a, b) ==
    RoundNE(Sign(a[1]) * Sign(b[1]), Abs(a[1]) * Abs(b[1]), a[2] + b[2])

\* a / b for b # 0: a quotient of Precision + 2 bits or more, the remainder
\* folded into a sticky bit, then rounded.
FDiv(a, b) ==
    LET N == Abs(a[1]) * Pow2(Precision + 2)
        Q == N \div Abs(b[1])
        R == N % Abs(b[1])
    IN  RoundNE(Sign(a[1]) * Sign(b[1]),
                2 * Q + (IF R # 0 THEN 1 ELSE 0),
                a[2] - b[2] - (Precision + 2) - 1)

\* The float a decimal literal n/d denotes.
Lit(n, d) ==
    FDiv(FromInt(n), FromInt(d))

FLe(a, b) ==
    AlignedSum(a, b, 0 - 1)[1] <= 0

FLt(a, b) ==
    AlignedSum(a, b, 0 - 1)[1] < 0

\* Distance from a to b in units of the last place of b (b # 0), rounded up.
UlpDist(a, b) ==
    LET s == AlignedSum(a, b, 0 - 1)
        u == Pow2(b[2] - s[2])
    IN  (Abs(s[1]) + u - 1) \div u

\* --------------------------------------------------- SSD.__init__, sizes
\* lines 88-89 with a fault: the fractions are spread over num_layers steps,
\* not num_layers - 1
ScaleFractionsMissingLast(num_layers, min_scale, max_scale) ==
    [i \in 1..num_layers |->
        FAdd(min_scale,
             FDiv(FMul(FSub(max_scale, min_scale), FromInt(i - 1)),
                  FromInt(num_layers)))] \o <<FromInt(1)>>

\* lines 88-89: the per-layer scale fractions followed by 1.0
ScaleFractions(num_layers, min_scale, max_scale) ==
    [i \in 1..num_layers |->
        FAdd(min_scale,
             FDiv(FMul(FSub(max_scale, min_scale), FromInt(i - 1)),
                  FromInt(num_layers - 1)))] \o <<FromInt(1)>>

\* lines 90-91: scale by base_size, then zip(sizes[:-1], sizes[1:])
SizePairs(num_layers, base_size, min_scale, max_scale) ==
    LET fr == ScaleFractions(num_layers, min_scale, max_scale)
        sz == [i \in 1..Len(fr) |-> FMul(fr[i], FromInt(base_size))]
    IN  [i \in 1..(Len(sz) - 1) |-> <<sz[i], sz[i + 1]>>]

\* ------------------------------------------------------- argument values
\* A Python value that may be a list/tuple or a scalar: isList tells which,
\* items holds the elements (a scalar is its own single item).
ListOf(items) ==
    [isList |-> TRUE, items |-> items]

Scalar(x) ==
    [isList |-> FALSE, items |-> <<x>>]

\* s * n for a Python list s
RECURSIVE Repeat(_, _)
Repeat(s, n) ==
    IF n <= 0 THEN <<>> ELSE s \o Repeat(s, n - 1)

Prefix(s, n) ==
    [i \in 1..Min2(n, Len(s)) |-> s[i]]

\* ------------------------------------------------------------ SSD object
\* The object before __init__ has assigned anything: attrs is the set of
\* attributes assigned so far.
BlankFeatures ==
    [kind |-> "unset", network |-> "None", outputs |-> <<>>, num_filters |-> <<>>,
     global_pool |-> FALSE, pretrained |-> 0, load |-> FALSE]

BlankSSD ==
    [attrs |-> {}, _num_layers |-> 0, num_classes |-> 0,
     nms_thresh |-> <<0, 0>>, nms_topk |-> 0, force_nms |-> FALSE,
     target |-> <<>>, features |-> BlankFeatures,
     class_predictors |-> <<>>, box_predictors |-> <<>>, anchor_generators |-> <<>>,
     bbox_decoder |-> <<>>, cls_decoder |-> <<>>, lr_mult |-> <<>>]

\* What a call of the constructor leaves: the exception raised ("none" when
\* it returns), the source line raising it, and the object as it then is.
Raise(exc, line, obj) ==
    [raised |-> exc, line |-> line, obj |-> obj]

Return(obj) ==
    [raised |-> "none", line |-> 0, obj |-> obj]

\* lines 82-85
NumLayers(a) ==
    IF a.network = "None"
    THEN Len(a.ratios.items)
    ELSE Len(a.features) + Len(a.num_filters) + (IF a.global_pool THEN 1 ELSE 0)

\* line 86
ScaleOk(scale) ==
    Len(scale) = 2

\* line 88: range(num_layers) is not empty and the divisor num_layers - 1 is 0
DividesByZero(num_layers) ==
    num_layers >= 1 /\ num_layers - 1 = 0

\* lines 93-94
Broadcast(ratios, num_layers) ==
    IF ~ratios[1].isList THEN Repeat(ratios, num_layers) ELSE ratios

\* line 95 with a fault: the layer count is compared with the sizes only
LayerCountsAgreeSizesOnly(num_layers, sizes, ratios) ==
    num_layers = Len(sizes)

\* line 95
LayerCountsAgree(num_layers, sizes, ratios) ==
    num_layers = Len(sizes) /\ Len(sizes) = Len(ratios)

\* lines 99-106
AssignFields(obj, a, num_layers) ==
    [obj EXCEPT
        !.attrs = @ \cup {"_num_layers", "num_classes", "nms_thresh", "nms_topk",
                          "force_nms", "target"},
        !._num_layers = num_layers,
        !.num_classes = a.classes + 1,
        !.nms_thresh = a.nms_thresh,
        !.nms_topk = a.nms_topk,
        !.force_nms = a.force_nms,
        !.target = <<[iou_thresh |-> a.iou_thresh, neg_thresh |-> a.neg_thresh,
                      negative_mining_ratio |-> a.negative_mining_ratio,
                      stds |-> a.stds]>>]

\* lines 109-117
MakeFeatures(obj, a) ==
    [obj EXCEPT
        !.attrs = @ \cup {"features"},
        !.features =
            IF a.network = "None"
            THEN [kind |-> "block", network |-> "None", outputs |-> a.features,
                  num_filters |-> <<>>, global_pool |-> FALSE,
                  pretrained |-> a.pretrained, load |-> FALSE]
            ELSE [kind |-> "FeatureExpander", network |-> a.network,
                  outputs |-> a.features, num_filters |-> a.num_filters,
                  global_pool |-> a.global_pool, pretrained |-> 0,
                  load |-> (a.pretrained > 0)]]

\* SSDAnchorGenerator (anchor.py): what it must be given as ratios
AnchorRatiosOk(r) ==
    r.isList /\ Len(r.items) > 0

\* SSDAnchorGenerator.num_depth (anchor.py): anchors per cell, one for each
\* of the two sizes and one more for each ratio after the first
NumDepth(r) ==
    2 + (Len(r.items) - 1)

\* SSDAnchorGenerator(i, s, r, st, (asz, asz)), line 123
SSDAnchorGenerator(i, s, r, st, asz) ==
    [index |-> i, sizes |-> s, ratios |-> r.items, step |-> st,
     alloc_size |-> <<asz, asz>>, num_depth |-> NumDepth(r)]

\* ConvPredictor(num_channel), lines 126-127
ConvPredictor(num_channel) ==
    [num_channel |-> num_channel]

\* line 122: the length of zip(range(num_layers), sizes, ratios, steps)
ZipLen(num_layers, sizes, ratios, steps) ==
    Min2(Min2(num_layers, Len(sizes)), Min2(Len(ratios), Len(steps)))

\* lines 118-127: the loop from its k-th iteration on, with asz as it then is
RECURSIVE AddLayers(_, _, _, _, _, _, _)
AddLayers(obj, k, n, sizes, ratios, steps, asz) ==
    IF k > n THEN Return(obj)
    ELSE IF ~AnchorRatiosOk(ratios[k]) THEN Raise("AnchorConfigError", 123, obj)
    ELSE LET ag == SSDAnchorGenerator(k - 1, sizes[k], ratios[k], steps[k], asz)
             num_anchors == ag.num_depth
             next == [obj EXCEPT
                        !.anchor_generators = Append(@, ag),
                        !.class_predictors =
                            Append(@, ConvPredictor(num_anchors * obj.num_classes)),
                        !.box_predictors = Append(@, ConvPredictor(num_anchors * 4))]
         IN  AddLayers(next, k + 1, n, sizes, ratios, steps, asz \div 2)

\* lines 128-129
AddDecoders(r, a) ==
    IF r.raised # "none" THEN r
    ELSE Return([r.obj EXCEPT
                    !.attrs = @ \cup {"bbox_decoder", "cls_decoder"},
                    !.bbox_decoder = <<[stds |-> a.stds]>>,
                    !.cls_decoder = <<"MultiClassDecoder">>])

\* lines 108-129
Build(obj, a, num_layers, sizes, ratios) ==
    LET withFeatures == MakeFeatures(obj, a)
        withLists == [withFeatures EXCEPT
                        !.attrs = @ \cup {"class_predictors", "box_predictors",
                                          "anchor_generators"}]
    IN  AddDecoders(AddLayers(withLists, 1,
                              ZipLen(num_layers, sizes, ratios, a.steps),
                              sizes, ratios, a.steps, a.anchor_alloc_size), a)

\* SSD.__init__, lines 74-129
SSD(a) ==
    LET num_layers == NumLayers(a) IN
    IF ~ScaleOk(a.scale) THEN Raise("AssertionError", 86, BlankSSD)
    ELSE IF DividesByZero(num_layers) THEN Raise("ZeroDivisionError", 88, BlankSSD)
    ELSE LET sizes == SizePairs(num_layers, a.base_size, a.scale[1], a.scale[2]) IN
         IF ~a.ratios.isList THEN Raise("AssertionError", 92, BlankSSD)
         ELSE IF Len(a.ratios.items) = 0 THEN Raise("IndexError", 93, BlankSSD)
         ELSE LET ratios == Broadcast(a.ratios.items, num_layers) IN
              IF ~LayerCountsAgree(num_layers, sizes, ratios)
              THEN Raise("AssertionError", 95, BlankSSD)
              ELSE IF ~(num_layers > 0) THEN Raise("AssertionError", 98, BlankSSD)
              ELSE Build(AssignFields(BlankSSD, a, num_layers), a,
                         num_layers, sizes, ratios)

\* --------------------------------------------------- set_nms, hybrid_forward
\* set_nms with a fault: only the threshold is stored
set_nms_thresh_only(self, nms_thresh, nms_topk, force_nms) ==
    [self EXCEPT !.nms_thresh = nms_thresh]

\* SSD.set_nms, lines 131-134
set_nms(self, nms_thresh, nms_topk, force_nms) ==
    [self EXCEPT !.nms_thresh = nms_thresh,
                 !.nms_topk = nms_topk,
                 !.force_nms = force_nms]

\* An argument of a call: given with a value, or omitted
Given(v) ==
    [given |-> TRUE, val |-> v]

Omitted(v) ==
    [given |-> FALSE, val |-> v]

\* the keyword defaults of set_nms, line 131
OrDefault(arg, default) ==
    IF arg.given THEN arg.val ELSE default

\* line 157 with a fault: the upper limit of the threshold is not tested
NmsEnabledNoUpper(nms_thresh) ==
    FLt(FromInt(0), nms_thresh)

\* line 157
NmsEnabled(nms_thresh) ==
    FLt(FromInt(0), nms_thresh) /\ FLt(nms_thresh, FromInt(1))

NoNms ==
    [applied |-> FALSE, overlap_thresh |-> <<0, 0>>, topk |-> 0,
     force_suppress |-> FALSE]

\* SSD.hybrid_forward, lines 140-164: what is returned and which of the
\* post-processing steps ran (the tensors are the framework's and are not
\* modelled)
hybrid_forward(self, is_recording) ==
    IF is_recording
    THEN [returns |-> <<"cls_preds", "box_preds", "anchors">>,
          decoded |-> FALSE, nms |-> NoNms]
    ELSE [returns |-> <<"ids", "scores", "bboxes">>,
          decoded |-> TRUE,
          nms |-> IF NmsEnabled(self.nms_thresh)
                  THEN [applied |-> TRUE, overlap_thresh |-> self.nms_thresh,
                        topk |-> self.nms_topk, force_suppress |-> self.force_nms]
                  ELSE NoNms]

\* ------------------------------------------------------ get_ssd, factories
\* the keyword defaults of SSD.__init__, lines 75-79
KwDefaults ==
    [global_pool |-> FALSE, pretrained |-> 0,
     iou_thresh |-> Lit(1, 2), neg_thresh |-> Lit(1, 2), negative_mining_ratio |-> 3,
     stds |-> <<Lit(1, 10), Lit(1, 10), Lit(2, 10), Lit(2, 10)>>,
     nms_thresh |-> FromInt(0), nms_topk |-> 0 - 1, force_nms |-> FALSE,
     anchor_alloc_size |-> 128]

\* line 179 with a fault: only a pretrained level above 2 is refused
PretrainedUnsupportedAbove2(pretrained) ==
    pretrained > 2

\* line 179
PretrainedUnsupported(pretrained) ==
    pretrained > 1

\* set_lr_mult(net, ".*_bias", 2.0), line 182
set_lr_mult(net, pattern, mult) ==
    [net EXCEPT !.lr_mult = Append(@, <<pattern, mult>>)]

\* lines 179-183: with r what the constructor left, the outcome of get_ssd:
\* the exception raised ("none" when a network is returned) and the network
get_ssd_after(r, pretrained) ==
    IF r.raised # "none"
    THEN [ctor |-> r, raised |-> r.raised, line |-> r.line,
          returned |-> FALSE, net |-> BlankSSD]
    ELSE IF PretrainedUnsupported(pretrained)
    THEN [ctor |-> r, raised |-> "NotImplementedError", line |-> 181,
          returned |-> FALSE, net |-> BlankSSD]
    ELSE [ctor |-> r, raised |-> "none", line |-> 0,
          returned |-> TRUE, net |-> set_lr_mult(r.obj, ".*_bias", "2.0")]

\* get_ssd, lines 166-183
get_ssd(g) ==
    get_ssd_after(SSD(g @@ KwDefaults), g.pretrained)

R3 ==
    ListOf(<<"1", "2", "0.5">>)

R5 ==
    ListOf(<<"1", "2", "0.5", "3", "1/3">>)

\* lines 185-191
ssd_300_vgg16_atrous(pretrained, classes) ==
    get_ssd([network |-> "None", base_size |-> 300,
             features |-> <<"vgg16_atrous_300">>, num_filters |-> <<>>,
             scale |-> <<Lit(1, 10), Lit(95, 100)>>,
             ratios |-> ListOf(<<R3>> \o Repeat(<<R5>>, 3) \o Repeat(<<R3>>, 2)),
             steps |-> <<8, 16, 32, 64, 100, 300>>,
             classes |-> classes, pretrained |-> pretrained])

\* lines 193-199
ssd_512_vgg16_atrous(pretrained, classes) ==
    get_ssd([network |-> "None", base_size |-> 512,
             features |-> <<"vgg16_atrous_512">>, num_filters |-> <<>>,
             scale |-> <<Lit(1, 10), Lit(95, 100)>>,
             ratios |-> ListOf(<<R3>> \o Repeat(<<R5>>, 4) \o Repeat(<<R3>>, 2)),
             steps |-> <<8, 16, 32, 64, 128, 256, 512>>,
             classes |-> classes, pretrained |-> pretrained])

\* lines 201-210
ssd_512_resnet18_v1(pretrained, classes) ==
    get_ssd([network |-> "resnet18_v1", base_size |-> 512,
             features |-> <<"stage3_activation1", "stage4_activation1">>,
             num_filters |-> <<512, 512, 256, 256>>,
             scale |-> <<Lit(1, 10), Lit(95, 100)>>,
             ratios |-> ListOf(<<R3>> \o Repeat(<<R5>>, 4) \o Repeat(<<R3>>, 2)),
             steps |-> <<8, 16, 32, 64, 128, 256, 512>>,
             classes |-> classes, pretrained |-> pretrained])

\* lines 212-221
ssd_512_resnet50_v1(pretrained, classes) ==
    get_ssd([network |-> "resnet50_v1", base_size |-> 512,
             features |-> <<"stage3_activation5", "stage4_activation2">>,
             num_filters |-> <<512, 512, 256, 256>>,
             scale |-> <<Lit(1, 10), Lit(95, 100)>>,
             ratios |-> ListOf(<<R3>> \o Repeat(<<R5>>, 5)),
             steps |-> <<16, 32, 64, 128, 256, 512>>,
             classes |-> classes, pretrained |-> pretrained])

\* ------------------------------------------------------------------ state
\* net:       the detector last constructed (BlankSSD while there is none)
\* recording: autograd.is_recording()
\* call:      the most recent call, its arguments and its outcome
\* sz:        the inputs and the result of the size-pair computation
VARIABLES net, recording, call, sz

vars ==
    <<net, recording, call, sz>>

NoCall ==
    [op |-> "none"]

NoSizes ==
    [num_layers |-> 0, base_size |-> 0, min_scale |-> <<0, 0>>,
     max_scale |-> <<0, 0>>, done |-> FALSE, pairs |-> <<>>]

\* ---------------------------------------------------------- input domains
Steps(k) ==
    [i \in 1..k |-> 8 * Pow2(i - 1)]

NestedRatios(k) ==
    ListOf(<<R3>> \o Repeat(<<R5>>, k - 1))

FlatRatios ==
    {ListOf(<<Scalar("2")>>), ListOf(<<Scalar("1"), Scalar("2"), Scalar("0.5")>>)}

RatioChoices ==
    {NestedRatios(k) : k \in 1..MaxLayers} \cup FlatRatios
        \cup {ListOf(<<>>), [isList |-> FALSE, items |-> <<R3, R3>>]}

ScaleChoices ==
    {<<Lit(1, 10)>>, <<Lit(1, 10), Lit(95, 100)>>,
     <<Lit(1, 10), Lit(95, 100), FromInt(1)>>}

Backbones ==
    {[network |-> "None", features |-> <<"vgg16_atrous_300">>,
      num_filters |-> <<>>, global_pool |-> FALSE]}
    \cup {[network |-> "resnet18_v1",
           features |-> Prefix(<<"stage3_activation1", "stage4_activation1">>, f),
           num_filters |-> Prefix(<<512, 256>>, c), global_pool |-> gp] :
          f \in 0..2, c \in 0..2, gp \in BOOLEAN}

\* every argument list the constructor is tried on
CtorArgs ==
    {(b @@ [base_size |-> 300, scale |-> sc, ratios |-> r, steps |-> Steps(k),
            classes |-> cl]) @@ KwDefaults :
        b \in Backbones, sc \in ScaleChoices, r \in RatioChoices,
        k \in 0..(MaxLayers + 1), cl \in {1, 20}}

\* the argument lists the detector's life is followed from: two and three
\* layers, steps too few, exact and too many, a flat ratio list, and the
\* NMS fields at their defaults or set
LifeShapes ==
    {<<c, NestedRatios(n), k>> : c \in 1..2, n \in 2..3, k \in 1..3}
        \cup {<<1, ListOf(<<Scalar("1"), Scalar("2"), Scalar("0.5")>>), 2>>}

LifeNms ==
    {<<FromInt(0), 0 - 1, FALSE>>, <<Lit(1, 2), 100, TRUE>>}

LifeChoices ==
    LifeShapes \X LifeNms

LifeArgs ==
    {[network |-> "resnet18_v1", base_size |-> 300,
      features |-> <<"stage4_activation1">>,
      num_filters |-> Prefix(<<512, 256>>, ch[1][1]),
      scale |-> <<Lit(1, 10), Lit(95, 100)>>, ratios |-> ch[1][2],
      steps |-> Steps(ch[1][3]),
      classes |-> 20, nms_thresh |-> ch[2][1], nms_topk |-> ch[2][2],
      force_nms |-> ch[2][3]] @@ KwDefaults :
        ch \in LifeChoices}

ThreshArgs ==
    {Omitted(FromInt(0)), Given(Lit(1, 2)), Given(FromInt(1)), Given(Lit(3, 2)),
     Given(Lit(0 - 1, 2))}

TopkArgs ==
    {Omitted(0), Given(100)}

ForceArgs ==
    {Omitted(FALSE), Given(TRUE)}

\* ---------------------------------------------------------------- actions
\* net = SSD(**a)
Construct(a) ==
    /\ \E r \in {SSD(a)} :
          /\ call' = [op |-> "SSD", args |-> a, raised |-> r.raised,
                      line |-> r.line, obj |-> r.obj]
          /\ net' = IF r.raised = "none" THEN r.obj ELSE net
    /\ UNCHANGED <<recording, sz>>

\* net.set_nms(...), each argument given or left out
SetNms(nms_thresh, nms_topk, force_nms) ==
    /\ net.attrs # {}
    /\ net' = set_nms(net, OrDefault(nms_thresh, FromInt(0)),
                      OrDefault(nms_topk, 0 - 1), OrDefault(force_nms, FALSE))
    /\ call' = [op |-> "set_nms", nms_thresh |-> nms_thresh, nms_topk |-> nms_topk,
                force_nms |-> force_nms]
    /\ UNCHANGED <<recording, sz>>

\* net(x)
Forward ==
    /\ net.attrs # {}
    /\ call' = [op |-> "forward", out |-> hybrid_forward(net, recording)]
    /\ UNCHANGED <<net, recording, sz>>

\* entering and leaving an autograd.record() scope
RecordEnter ==
    /\ ~recording
    /\ recording' = TRUE
    /\ call' = [op |-> "record_enter"]
    /\ UNCHANGED <<net, sz>>

RecordExit ==
    /\ recording
    /\ recording' = FALSE
    /\ call' = [op |-> "record_exit"]
    /\ UNCHANGED <<net, sz>>

Init ==
    /\ net = BlankSSD
    /\ recording = FALSE
    /\ call = NoCall
    /\ sz = NoSizes

Next ==
    \/ \E a \in LifeArgs : Construct(a)
    \/ \E t \in ThreshArgs, k \in TopkArgs, f \in ForceArgs : SetNms(t, k, f)
    \/ Forward
    \/ RecordEnter
    \/ RecordExit

Spec ==
    Init /\ [][Next]_vars

\* ------------------------------------- the constructor on all its inputs
FirstConstruct ==
    /\ call.op = "none"
    /\ \E a \in CtorArgs : Construct(a)

NextCtor ==
    FirstConstruct

SpecCtor ==
    Init /\ [][NextCtor]_vars

\* --------------------------------------------- get_ssd and the factories
\* Largest pretrained level get_ssd and the factories are called with.
MaxPretrained ==
    3

ClassChoices ==
    {1, 20}

ZooArgs ==
    {[network |-> "resnet18_v1", base_size |-> 512,
      features |-> <<"stage4_activation1">>,
      num_filters |-> Prefix(<<512, 256>>, c),
      scale |-> <<Lit(1, 10), Lit(95, 100)>>, ratios |-> NestedRatios(n),
      steps |-> Steps(k), classes |-> cl, pretrained |-> p] :
        c \in 0..2, n \in 2..3, k \in 2..3, cl \in ClassChoices,
        p \in 0..MaxPretrained}

\* the record kept of a call of get_ssd or of a factory
Outcome(op, g, res) ==
    [op |-> op, args |-> g, ctor |-> res.ctor, raised |-> res.raised,
     line |-> res.line, returned |-> res.returned]

Bind(res) ==
    IF res.returned THEN res.net ELSE net

GetSsd ==
    /\ call.op = "none"
    /\ \E g \in ZooArgs :
          \E res \in {get_ssd(g)} :
              /\ call' = Outcome("get_ssd", g, res)
              /\ net' = Bind(res)
    /\ UNCHANGED <<recording, sz>>

FactoryArgs ==
    [pretrained : 0..MaxPretrained, classes : ClassChoices]

Ssd300Vgg16Atrous ==
    /\ call.op = "none"
    /\ \E g \in FactoryArgs :
          \E res \in {ssd_300_vgg16_atrous(g.pretrained, g.classes)} :
              /\ call' = Outcome("ssd_300_vgg16_atrous", g, res)
              /\ net' = Bind(res)
    /\ UNCHANGED <<recording, sz>>

Ssd512Vgg16Atrous ==
    /\ call.op = "none"
    /\ \E g \in FactoryArgs :
          \E res \in {ssd_512_vgg16_atrous(g.pretrained, g.classes)} :
              /\ call' = Outcome("ssd_512_vgg16_atrous", g, res)
              /\ net' = Bind(res)
    /\ UNCHANGED <<recording, sz>>

Ssd512Resnet18V1 ==
    /\ call.op = "none"
    /\ \E g \in FactoryArgs :
          \E res \in {ssd_512_resnet18_v1(g.pretrained, g.classes)} :
              /\ call' = Outcome("ssd_512_resnet18_v1", g, res)
              /\ net' = Bind(res)
    /\ UNCHANGED <<recording, sz>>

Ssd512Resnet50V1 ==
    /\ call.op = "none"
    /\ \E g \in FactoryArgs :
          \E res \in {ssd_512_resnet50_v1(g.pretrained, g.classes)} :
              /\ call' = Outcome("ssd_512_resnet50_v1", g, res)
              /\ net' = Bind(res)
    /\ UNCHANGED <<recording, sz>>

NextZoo ==
    \/ GetSsd
    \/ Ssd300Vgg16Atrous
    \/ Ssd512Vgg16Atrous
    \/ Ssd512Resnet18V1
    \/ Ssd512Resnet50V1

SpecZoo ==
    Init /\ [][NextZoo]_vars

\* ------------------------------------------------ the size pairs alone
SizeInputs ==
    {[num_layers |-> n, base_size |-> b, min_scale |-> Lit(lo, 20),
      max_scale |-> Lit(hi, 20), done |-> FALSE, pairs |-> <<>>] :
        n \in 2..MaxLayers, b \in {300, 512},
        lo \in {1, 2, 3, 8, 10, 19, 20}, hi \in {2, 3, 10, 14, 16, 19, 20}}

InitSizes ==
    /\ net = BlankSSD
    /\ recording = FALSE
    /\ call = NoCall
    /\ sz \in {i \in SizeInputs : FLe(i.min_scale, i.max_scale)}

ComputeSizes ==
    /\ ~sz.done
    /\ sz' = [sz EXCEPT !.done = TRUE,
                        !.pairs = SizePairs(sz.num_layers, sz.base_size,
                                            sz.min_scale, sz.max_scale)]
    /\ UNCHANGED <<net, recording, call>>

NextSizes ==
    ComputeSizes

SpecSizes ==
    InitSizes /\ [][NextSizes]_vars

\* ================================================================ claims
\* C1: a forward call made while recording returns the raw triple (class
\* predictions, box predictions, anchors), not decoded and without NMS,
\* whatever the NMS fields are; a forward call made while not recording
\* decodes, and applies box NMS exactly when the stored threshold t has
\* 0 < t < 1, handing it the stored threshold, top-k and force flag.
C1_ForwardModes ==
    call.op = "forward" =>
        IF recording
        THEN /\ call.out.returns = <<"cls_preds", "box_preds", "anchors">>
             /\ ~call.out.decoded
             /\ ~call.out.nms.applied
        ELSE /\ call.out.returns = <<"ids", "scores", "bboxes">>
             /\ call.out.decoded
             /\ call.out.nms.applied <=>
                    (net.nms_thresh[1] > 0 /\ net.nms_thresh[2] <= 0 - Precision)
             /\ call.out.nms.applied =>
                    /\ call.out.nms.overlap_thresh = net.nms_thresh
                    /\ call.out.nms.topk = net.nms_topk
                    /\ call.out.nms.force_suppress = net.force_nms

\* a forward call outside recording that ran NMS with fields a set_nms or
\* the constructor stored
C1_Witness ==
    /\ call.op = "forward"
    /\ ~recording
    /\ call.out.nms.applied
    /\ call.out.nms.topk = 100
    /\ call.out.nms.force_suppress

\* C2: set_nms stores exactly the three values given, an omitted argument
\* taking its default (0, -1, False) and not the value held before, and
\* changes nothing else of the network.
C2_SetNmsFrame ==
    [][call'.op = "set_nms" =>
        /\ net'.nms_thresh =
              (IF call'.nms_thresh.given THEN call'.nms_thresh.val ELSE <<0, 0>>)
        /\ net'.nms_topk =
              (IF call'.nms_topk.given THEN call'.nms_topk.val ELSE 0 - 1)
        /\ net'.force_nms =
              (IF call'.force_nms.given THEN call'.force_nms.val ELSE FALSE)
        /\ [net' EXCEPT !.nms_thresh = net.nms_thresh,
                        !.nms_topk = net.nms_topk,
                        !.force_nms = net.force_nms] = net]_vars

\* set_nms(nms_topk=100) on a three-layer network: threshold and force flag
\* are back at their defaults
C2_Witness ==
    /\ call.op = "set_nms"
    /\ ~call.nms_thresh.given /\ call.nms_topk.given /\ ~call.force_nms.given
    /\ net.nms_thresh = <<0, 0>> /\ net.nms_topk = 100 /\ ~net.force_nms
    /\ Len(net.anchor_generators) = 3

\* C3: construction rejects every configuration whose number of steps
\* differs from the number of layers.
C3_StepsCountChecked ==
    (call.op = "SSD" /\ Len(call.args.steps) # NumLayers(call.args))
        => call.raised # "none"

\* C4: when scale has not exactly two entries, or the number of ratio lists
\* (as given when nested, as the constructor spreads them when flat) differs
\* from the number of layers, or ratios is empty, or the number of layers is
\* not positive, the constructor raises with nothing assigned or created.
C4_NoPartialConstruction ==
    call.op = "SSD" =>
        LET a == call.args
            n == IF a.network = "None"
                 THEN Len(a.ratios.items)
                 ELSE Len(a.features) + Len(a.num_filters)
                        + (IF a.global_pool THEN 1 ELSE 0)
            empty == Len(a.ratios.items) = 0
            mismatch == /\ ~empty
                        /\ IF a.ratios.items[1].isList
                           THEN Len(a.ratios.items) # n
                           ELSE Len(a.ratios.items) * n # n
        IN  (Len(a.scale) # 2 \/ mismatch \/ empty \/ n <= 0) =>
                /\ call.raised # "none"
                /\ call.obj.attrs = {}
                /\ call.obj = BlankSSD
                /\ net = BlankSSD

\* three ratio lists for a two-layer network: refused at the layer-count
\* assertion with the object still blank
C4_Witness ==
    /\ call.op = "SSD"
    /\ Len(call.args.scale) = 2
    /\ call.args.network # "None"
    /\ Len(call.args.features) + Len(call.args.num_filters) = 2
    /\ ~call.args.global_pool
    /\ call.args.ratios = NestedRatios(3)
    /\ call.raised = "AssertionError" /\ call.line = 95
    /\ call.obj = BlankSSD

\* C5: with a configuration the constructor accepts, get_ssd raises
\* NotImplementedError and returns no network when pretrained > 1, and
\* returns the constructed network when pretrained <= 1.
C5_PretrainedNotImplemented ==
    (call.op \in {"get_ssd", "ssd_300_vgg16_atrous", "ssd_512_vgg16_atrous",
                  "ssd_512_resnet18_v1", "ssd_512_resnet50_v1"}
        /\ call.ctor.raised = "none") =>
        IF call.args.pretrained > 1
        THEN /\ call.raised = "NotImplementedError"
             /\ ~call.returned
             /\ net = BlankSSD
        ELSE /\ call.raised = "none"
             /\ call.returned
             /\ [net EXCEPT !.lr_mult = <<>>] = call.ctor.obj

\* get_ssd(pretrained=2) on a configuration that constructs
C5_Witness ==
    /\ call.op = "get_ssd"
    /\ call.args.pretrained = 2
    /\ call.ctor.raised = "none"
    /\ Len(call.ctor.obj.anchor_generators) = 3
    /\ call.raised = "NotImplementedError"

\* C6: a one-layer detector with steps [8], ratios [1, 2, 0.5] (flat or as
\* the one list of a nested list) and scale (0.1, 0.95) is built, with one
\* anchor generator of 4 anchors per cell, one class predictor of
\* 4 * (classes + 1) channels and one box predictor of 16 channels.
C6_OneLayerBuilds ==
    (/\ call.op = "SSD"
     /\ NumLayers(call.args) = 1
     /\ call.args.steps = <<8>>
     /\ call.args.scale = <<Lit(1, 10), Lit(95, 100)>>
     /\ call.args.ratios \in {NestedRatios(1),
                              ListOf(<<Scalar("1"), Scalar("2"), Scalar("0.5")>>)})
        => /\ call.raised = "none"
           /\ Len(call.obj.anchor_generators) = 1
           /\ call.obj.anchor_generators[1].num_depth = 4
           /\ Len(call.obj.class_predictors) = 1
           /\ call.obj.class_predictors[1].num_channel = 4 * (call.args.classes + 1)
           /\ Len(call.obj.box_predictors) = 1
           /\ call.obj.box_predictors[1].num_channel = 16

\* C7: a flat ratio list given to a network of two or more layers is handed
\* whole to every layer: construction succeeds with one anchor generator per
\* layer, each holding the list given.
C7_FlatRatiosBroadcast ==
    (/\ call.op = "SSD"
     /\ call.args.ratios.isList
     /\ Len(call.args.ratios.items) > 0
     /\ ~call.args.ratios.items[1].isList
     /\ NumLayers(call.args) >= 2
     /\ Len(call.args.scale) = 2
     /\ Len(call.args.steps) = NumLayers(call.args))
        => /\ call.raised = "none"
           /\ Len(call.obj.anchor_generators) = NumLayers(call.args)
           /\ \A i \in 1..Len(call.obj.anchor_generators) :
                 call.obj.anchor_generators[i].ratios =
                     [j \in 1..Len(call.args.ratios.items) |->
                         call.args.ratios.items[j].items[1]]

\* C8: in every constructed network the anchor generators, class predictors
\* and box predictors are as many as _num_layers, the i-th class predictor
\* has num_depth_i * num_classes channels and the i-th box predictor
\* num_depth_i * 4, and the i-th anchor generator was built from the i-th
\* size pair, ratio list and step.
C8_IndexAlignment ==
    /\ net.attrs # {} =>
          /\ Len(net.anchor_generators) = net._num_layers
          /\ Len(net.class_predictors) = net._num_layers
          /\ Len(net.box_predictors) = net._num_layers
          /\ \A i \in 1..Len(net.anchor_generators) :
                /\ net.anchor_generators[i].index = i - 1
                /\ net.class_predictors[i].num_channel =
                      net.anchor_generators[i].num_depth * net.num_classes
                /\ net.box_predictors[i].num_channel =
                      net.anchor_generators[i].num_depth * 4
    /\ (call.op = "SSD" /\ call.raised = "none") =>
          \A i \in 1..Len(net.anchor_generators) :
             /\ net.anchor_generators[i].step = call.args.steps[i]
             /\ net.anchor_generators[i].ratios = call.args.ratios.items[i].items
             /\ net.anchor_generators[i].sizes =
                   SizePairs(net._num_layers, call.args.base_size,
                             call.args.scale[1], call.args.scale[2])[i]

\* C9: each of the four exported factories, called with its defaults
\* (pretrained=0, classes=20), passes the constructor's validation and
\* returns a network.
C9_FactoriesConstruct ==
    (/\ call.op \in {"ssd_300_vgg16_atrous", "ssd_512_vgg16_atrous",
                     "ssd_512_resnet18_v1", "ssd_512_resnet50_v1"}
     /\ call.args.pretrained = 0
     /\ call.args.classes = 20)
        => /\ call.ctor.raised # "AssertionError"
           /\ call.returned

====
